---------------------------- MODULE Spec2Model ----------------------------
(***************************************************************************)
(* State-machine model of the `social` on-chain program (src/lib.rs).      *)
(*                                                                         *)
(* The ledger is a map from addresses to accounts.  An account holds a     *)
(* lamport balance and, for program-owned records, a deserialized struct.  *)
(* Program-derived addresses are represented by their seeds:               *)
(*    user_profile[u]            seeds ["user_profile", u]                 *)
(*    post[<<a, t>>]             seeds ["post", a, t]                      *)
(*    follow_account[<<f, g>>]   seeds ["follow", f, g]                    *)
(*    like_account[<<u, p>>]     seeds ["like", u, p]                      *)
(* Strings are represented by their byte length, the only attribute of a   *)
(* string the program inspects.  Option<T> is <<>> (None) or <<v>> (Some). *)
(* One instruction is one atomic transaction: account validation, the      *)
(* handler, then the exit step (write-back and close) -- or no change at   *)
(* all when any of them returns an error.                                  *)
(***************************************************************************)
EXTENDS Integers, Sequences, FiniteSets, TLC

VARIABLES
    lamports,        \* wallet (system account) balances
    user_profile,    \* UserProfile accounts, by owner key
    post,            \* Post accounts, by <<author, timestamp>>
    follow_account,  \* FollowRelation accounts, by <<follower, following>>
    like_account,    \* LikeRelation accounts, by <<user, post address>>
    clock,           \* Clock::get()?.unix_timestamp
    last,            \* history: the most recent instruction and its outcome
    prev             \* history: the instruction before a relation instruction

vars == <<lamports, user_profile, post, follow_account, like_account,
          clock, last, prev>>

-----------------------------------------------------------------------------
(* Bounds of the model *)

\* lamports charged per byte of account storage (Rent sysvar)
LamportsPerByte == 1
\* follow_user is not explored once a profile counter has reached this value
MaxCount == 2
\* largest value of the host clock
MaxClock == 1
\* largest number of optional fields supplied in one update_user_profile
MaxSupplied == 2

Users == {"alice", "bob"}
\* the platform's treasury wallet
Treasury == "treasury"
Wallets == Users \cup {Treasury}
Timestamps == {1000, 2000}
PostAddrs == Users \X Timestamps
FollowAddrs == Users \X Users
LikeAddrs == Users \X PostAddrs

-----------------------------------------------------------------------------
(* Option<T> and accounts *)

None == <<>>
Some(v) == <<v>>

\* an address at which nothing has been created
NoAccount == [lamports |-> 0, data |-> None]
Exists(acct) == acct.data # None
Data(acct) == acct.data[1]

Ok == "Ok"
Result(res, st) == [res |-> res, st |-> st]

-----------------------------------------------------------------------------
(* Program constants *)

MaxContentLen == 280
TextFeeDivisor == 100
ImageFeeDivisor == 10
TextPostType == 0
ImagePostType == 1

PostSpace == 8 + 32 + 4 + 280 + 1 + 4 + 1 + 32 + 8 + 8 + 8 + 8 + 1
RelationSpace == 8 + 32 + 32 + 8 + 1
ProfileSpace ==
    8 + 32 + 4 + 50 + 4 + 50 + 4 + 160 + 4 + 200 + 4 + 200 + 4 + 200
      + 4 + 100 + 8 + 8 + 8 + 8 + 1 + 1

Fields == <<"username", "display_name", "bio", "avatar_url",
            "cover_image_url", "website_url", "location">>

Limit(f) ==
    CASE f = "username" -> 50
      [] f = "display_name" -> 50
      [] f = "bio" -> 160
      [] f = "avatar_url" -> 200
      [] f = "cover_image_url" -> 200
      [] f = "website_url" -> 200
      [] f = "location" -> 100

TooLong(f) ==
    CASE f = "username" -> "UsernameTooLong"
      [] f = "display_name" -> "DisplayNameTooLong"
      [] f = "bio" -> "BioTooLong"
      [] f = "avatar_url" -> "AvatarUrlTooLong"
      [] f = "cover_image_url" -> "CoverImageUrlTooLong"
      [] f = "website_url" -> "WebsiteUrlTooLong"
      [] f = "location" -> "LocationTooLong"

-----------------------------------------------------------------------------
(* Serialized sizes *)

\* Borsh size of an Option<T>: one tag byte, and the value when present
OptionSize(o, size) == IF o = None THEN 1 ELSE 1 + size

\* Borsh size of an Option<String> holding `o`: tag, u32 length, bytes
OptionStringSize(o) == IF o = None THEN 1 ELSE 1 + 4 + o[1]

\* bytes of a serialized Post: discriminator, author, content (u32 length
\* and bytes), post_type, image_nft, reply_to, timestamp, likes, reposts,
\* replies, bump
PostSize(p) ==
    8 + 32 + (4 + p.content) + 1 + OptionSize(p.image_nft, 32)
      + OptionSize(p.reply_to, 32) + 8 + 8 + 8 + 8 + 1

\* bytes of a serialized UserProfile: discriminator, user, the seven
\* optional strings, the three counters, created_at, verified, bump
ProfileSize(p) ==
    8 + 32 + OptionStringSize(p.username) + OptionStringSize(p.display_name)
      + OptionStringSize(p.bio) + OptionStringSize(p.avatar_url)
      + OptionStringSize(p.cover_image_url)
      + OptionStringSize(p.website_url) + OptionStringSize(p.location)
      + 8 + 8 + 8 + 8 + 1 + 1

\* every record of ledger `st` fits the data its account was created with
\* (a FollowRelation or LikeRelation is RelationSpace bytes, always)
Serializable(st) ==
    /\ \A a \in DOMAIN st.post :
          Exists(st.post[a]) => PostSize(Data(st.post[a])) <= PostSpace
    /\ \A u \in DOMAIN st.user_profile :
          Exists(st.user_profile[u])
             => ProfileSize(Data(st.user_profile[u])) <= ProfileSpace

\* the exit step of an instruction that returned Ok: the accounts it holds
\* are serialized into their data, which fails when a record is larger
accounts_exit(r) ==
    IF r.res = Ok /\ ~Serializable(r.st)
    THEN Result("AccountDidNotSerialize", r.st)
    ELSE r

-----------------------------------------------------------------------------
(* The system program *)

\* rent-exempt minimum of an account with `space` bytes of data
\* (128 bytes of account metadata are charged as well)
Rent(space) == (128 + space) * LamportsPerByte

\* what every user's wallet holds at the start: the rent of a profile and of
\* two posts, and a little less than the fees of an image and a text post
InitialLamports ==
    Rent(ProfileSpace) + 2 * Rent(PostSpace)
      + Rent(PostSpace) \div ImageFeeDivisor + 2

\* the ledger as one value
Ledger ==
    [lamports |-> lamports, user_profile |-> user_profile, post |-> post,
     follow_account |-> follow_account, like_account |-> like_account]

\* system_instruction::transfer between two wallets
transfer_lamports(st, from, to, amount) ==
    IF st.lamports[from] < amount
    THEN Result("InsufficientFunds", st)
    ELSE LET debited == [st.lamports EXCEPT ![from] = @ - amount]
             credited == [debited EXCEPT ![to] = @ + amount]
         IN Result(Ok, [st EXCEPT !.lamports = credited])

\* #[account(init, payer = ..., space = ...)]: create the account at a
\* derived address, funded by the payer with the rent-exempt minimum
init_account(st, kind, addr, payer, space) ==
    IF st[kind][addr].lamports > 0 \/ Exists(st[kind][addr])
    THEN Result("AlreadyInUse", st)
    ELSE IF st.lamports[payer] < Rent(space)
    THEN Result("InsufficientFunds", st)
    ELSE Result(Ok,
           [st EXCEPT !.lamports[payer] = @ - Rent(space),
                      ![kind][addr] = [lamports |-> Rent(space),
                                       data |-> None]])

\* #[account(mut, close = receiver)]: at exit the account's lamports go to
\* the receiver and the account ceases to exist
close_account(st, kind, addr, receiver) ==
    [st EXCEPT !.lamports[receiver] = @ + st[kind][addr].lamports,
               ![kind][addr] = NoAccount]


-----------------------------------------------------------------------------
(* Arithmetic on u64 counters *)

\* `x -= 1` on a u64: at 0 a panic when the build checks overflow, and
\* otherwise the wrap-around to 2^64 - 1 (written x - 1, its two's complement)
checked_dec(x, overflow_checks) ==
    IF x = 0 /\ overflow_checks THEN None ELSE Some(x - 1)

-----------------------------------------------------------------------------
(* Post creation *)

\* #[derive(Accounts)] CreateTextPost: user_profile is deserialized, then
\* the post account is created at seeds ["post", author, timestamp]
CreateTextPost(st, author, timestamp) ==
    IF ~Exists(st.user_profile[author])
    THEN Result("AccountNotInitialized", st)
    ELSE init_account(st, "post", <<author, timestamp>>, author, PostSpace)

\* CreateImagePost with init_if_needed for init
CreateImagePost_if_needed(st, author, timestamp) ==
    IF ~Exists(st.user_profile[author])
    THEN Result("AccountNotInitialized", st)
    ELSE IF Exists(st.post[<<author, timestamp>>])
    THEN Result(Ok, st)
    ELSE init_account(st, "post", <<author, timestamp>>, author, PostSpace)

\* #[derive(Accounts)] CreateImagePost
CreateImagePost(st, author, timestamp) ==
    IF ~Exists(st.user_profile[author])
    THEN Result("AccountNotInitialized", st)
    ELSE init_account(st, "post", <<author, timestamp>>, author, PostSpace)

NewPost(author, content, post_type, reply_to, timestamp) ==
    [author |-> author, content |-> content, post_type |-> post_type,
     image_nft |-> None, reply_to |-> reply_to, timestamp |-> timestamp,
     likes |-> 0, reposts |-> 0, replies |-> 0]

\* create_text_post ignoring the result of the fee transfer
create_text_post_unchecked(st, author, platform_treasury, content, timestamp, reply_to) ==
    LET addr == <<author, timestamp>> IN
    IF ~(content <= MaxContentLen) THEN Result("ContentTooLong", st)
    ELSE IF ~(content > 0) THEN Result("ContentEmpty", st)
    ELSE
      LET total_rent == st.post[addr].lamports
          platform_fee == total_rent \div TextFeeDivisor
          paid == transfer_lamports(st, author, platform_treasury, platform_fee)
      IN Result(Ok,
           [paid.st EXCEPT
              !.post[addr].data =
                  Some(NewPost(author, content, TextPostType,
                               reply_to, timestamp)),
              !.user_profile[author].data =
                  Some([@[1] EXCEPT !.post_count = @ + 1])])

\* create_text_post leaving the author's post_count alone
create_text_post_uncounted(st, author, platform_treasury, content, timestamp, reply_to) ==
    LET addr == <<author, timestamp>> IN
    IF ~(content <= MaxContentLen) THEN Result("ContentTooLong", st)
    ELSE IF ~(content > 0) THEN Result("ContentEmpty", st)
    ELSE
      LET total_rent == st.post[addr].lamports
          platform_fee == total_rent \div TextFeeDivisor
          paid == transfer_lamports(st, author, platform_treasury, platform_fee)
      IN IF paid.res # Ok THEN paid
         ELSE Result(Ok,
                [paid.st EXCEPT
                   !.post[addr].data =
                       Some(NewPost(author, content, TextPostType,
                                    reply_to, timestamp))])

\* create_text_post with `<` for `<=` in the length check
create_text_post_strict(st, author, platform_treasury, content, timestamp, reply_to) ==
    LET addr == <<author, timestamp>> IN
    IF ~(content < MaxContentLen) THEN Result("ContentTooLong", st)
    ELSE IF ~(content > 0) THEN Result("ContentEmpty", st)
    ELSE
      LET total_rent == st.post[addr].lamports
          platform_fee == total_rent \div TextFeeDivisor
          paid == transfer_lamports(st, author, platform_treasury, platform_fee)
      IN IF paid.res # Ok THEN paid
         ELSE Result(Ok,
                [paid.st EXCEPT
                   !.post[addr].data =
                       Some(NewPost(author, content, TextPostType,
                                    reply_to, timestamp)),
                   !.user_profile[author].data =
                       Some([@[1] EXCEPT !.post_count = @ + 1])])

\* pub fn create_text_post, run on the validated accounts
create_text_post(st, author, platform_treasury, content, timestamp, reply_to) ==
    LET addr == <<author, timestamp>> IN
    IF ~(content <= MaxContentLen) THEN Result("ContentTooLong", st)
    ELSE IF ~(content > 0) THEN Result("ContentEmpty", st)
    ELSE
      LET total_rent == st.post[addr].lamports
          platform_fee == total_rent \div TextFeeDivisor
          paid == transfer_lamports(st, author, platform_treasury, platform_fee)
      IN IF paid.res # Ok THEN paid
         ELSE Result(Ok,
                [paid.st EXCEPT
                   !.post[addr].data =
                       Some(NewPost(author, content, TextPostType,
                                    reply_to, timestamp)),
                   !.user_profile[author].data =
                       Some([@[1] EXCEPT !.post_count = @ + 1])])

\* create_image_post charging the fee of a text post
create_image_post_text_fee(st, author, platform_treasury, content, timestamp, reply_to) ==
    LET addr == <<author, timestamp>> IN
    IF ~(content <= MaxContentLen) THEN Result("ContentTooLong", st)
    ELSE IF ~(content > 0) THEN Result("ContentEmpty", st)
    ELSE
      LET total_rent == st.post[addr].lamports
          platform_fee == total_rent \div TextFeeDivisor
          paid == transfer_lamports(st, author, platform_treasury, platform_fee)
      IN IF paid.res # Ok THEN paid
         ELSE Result(Ok,
                [paid.st EXCEPT
                   !.post[addr].data =
                       Some(NewPost(author, content, ImagePostType,
                                    reply_to, timestamp)),
                   !.user_profile[author].data =
                       Some([@[1] EXCEPT !.post_count = @ + 1])])

\* create_image_post counting the reply on the post it replies to
create_image_post_counting_replies(st, author, platform_treasury, content, timestamp, reply_to) ==
    LET addr == <<author, timestamp>> IN
    IF ~(content <= MaxContentLen) THEN Result("ContentTooLong", st)
    ELSE IF ~(content > 0) THEN Result("ContentEmpty", st)
    ELSE
      LET total_rent == st.post[addr].lamports
          platform_fee == total_rent \div ImageFeeDivisor
          paid == transfer_lamports(st, author, platform_treasury, platform_fee)
          created == [paid.st EXCEPT
                        !.post[addr].data =
                            Some(NewPost(author, content, ImagePostType,
                                         reply_to, timestamp)),
                        !.user_profile[author].data =
                            Some([@[1] EXCEPT !.post_count = @ + 1])]
      IN IF paid.res # Ok THEN paid
         ELSE IF reply_to # None /\ Exists(created.post[reply_to[1]])
         THEN Result(Ok, [created EXCEPT !.post[reply_to[1]].data =
                             Some([@[1] EXCEPT !.replies = @ + 1])])
         ELSE Result(Ok, created)

\* pub fn create_image_post, run on the validated accounts
create_image_post(st, author, platform_treasury, content, timestamp, reply_to) ==
    LET addr == <<author, timestamp>> IN
    IF ~(content <= MaxContentLen) THEN Result("ContentTooLong", st)
    ELSE IF ~(content > 0) THEN Result("ContentEmpty", st)
    ELSE
      LET total_rent == st.post[addr].lamports
          platform_fee == total_rent \div ImageFeeDivisor
          paid == transfer_lamports(st, author, platform_treasury, platform_fee)
      IN IF paid.res # Ok THEN paid
         ELSE Result(Ok,
                [paid.st EXCEPT
                   !.post[addr].data =
                       Some(NewPost(author, content, ImagePostType,
                                    reply_to, timestamp)),
                   !.user_profile[author].data =
                       Some([@[1] EXCEPT !.post_count = @ + 1])])

-----------------------------------------------------------------------------
(* Linking an image asset *)

\* #[derive(Accounts)] LinkCNftToPost: `post` is any Post account of the
\* program and `author` any signer; no constraint relates the two
LinkCNftToPost(st, author, p) ==
    IF ~Exists(st.post[p])
    THEN Result("AccountNotInitialized", st)
    ELSE Result(Ok, st)

\* link_cnft_to_post without the check of the post's kind
link_cnft_to_post_any_kind(st, author, p, cnft_address) ==
    Result(Ok, [st EXCEPT !.post[p].data =
                              Some([@[1] EXCEPT !.image_nft =
                                                    Some(cnft_address)])])

\* pub fn link_cnft_to_post, run on the validated accounts
link_cnft_to_post(st, author, p, cnft_address) ==
    IF ~(Data(st.post[p]).post_type = ImagePostType)
    THEN Result("NotImagePost", st)
    ELSE Result(Ok, [st EXCEPT !.post[p].data =
                                   Some([@[1] EXCEPT !.image_nft =
                                                         Some(cnft_address)])])

-----------------------------------------------------------------------------
(* Follow / unfollow *)

\* FollowUser with init_if_needed for init
FollowUser_if_needed(st, follower, following) ==
    IF ~Exists(st.user_profile[follower])
       \/ ~Exists(st.user_profile[following])
    THEN Result("AccountNotInitialized", st)
    ELSE IF Exists(st.follow_account[<<follower, following>>])
    THEN Result(Ok, st)
    ELSE init_account(st, "follow_account", <<follower, following>>,
                      follower, RelationSpace)

\* #[derive(Accounts)] FollowUser: both profiles are deserialized, then the
\* relation account is created at seeds ["follow", follower, following]
FollowUser(st, follower, following) ==
    IF ~Exists(st.user_profile[follower])
       \/ ~Exists(st.user_profile[following])
    THEN Result("AccountNotInitialized", st)
    ELSE init_account(st, "follow_account", <<follower, following>>,
                      follower, RelationSpace)

\* pub fn follow_user.  follower_profile and following_profile are two
\* deserialized copies; at exit they are written back in field order, so
\* when both name one account the second copy is the one persisted.
follow_user(st, follower, following, now) ==
    LET follower_profile == Data(st.user_profile[follower])
        following_profile == Data(st.user_profile[following])
        relation == [follower |-> follower, following |-> following,
                     timestamp |-> now]
        fp == [follower_profile EXCEPT !.following_count = @ + 1]
        gp == [following_profile EXCEPT !.followers_count = @ + 1]
        st1 == [st EXCEPT !.follow_account[<<follower, following>>].data =
                              Some(relation)]
        st2 == [st1 EXCEPT !.user_profile[follower].data = Some(fp)]
        st3 == [st2 EXCEPT !.user_profile[following].data = Some(gp)]
    IN Result(Ok, st3)

\* #[derive(Accounts)] UnfollowUser: the relation and both profiles must exist
UnfollowUser(st, follower, following) ==
    IF ~Exists(st.follow_account[<<follower, following>>])
       \/ ~Exists(st.user_profile[follower])
       \/ ~Exists(st.user_profile[following])
    THEN Result("AccountNotInitialized", st)
    ELSE Result(Ok, st)

\* pub fn unfollow_user: the handler writes nothing; the exit step closes
\* the relation account in favour of the follower
unfollow_user(st, follower, following) ==
    Result(Ok, close_account(st, "follow_account", <<follower, following>>,
                             follower))

\* seeds = [b"follow", follower, following] with any address accepted
FollowSeeds_unchecked(follow_account_key, follower, following) == TRUE

\* seeds = [b"follow", follower.key(), following.key()]: the account passed
\* as follow_account must be the address derived from the signer and the
\* followed key
FollowSeeds(follow_account_key, follower, following) ==
    follow_account_key = <<follower, following>>

\* FollowUser with an arbitrary account passed as follow_account
FollowUserWith(st, follow_account_key, follower, following) ==
    IF ~Exists(st.user_profile[follower])
       \/ ~Exists(st.user_profile[following])
    THEN Result("AccountNotInitialized", st)
    ELSE IF ~FollowSeeds(follow_account_key, follower, following)
    THEN Result("ConstraintSeeds", st)
    ELSE init_account(st, "follow_account", follow_account_key,
                      follower, RelationSpace)

\* UnfollowUser with an arbitrary account passed as follow_account
UnfollowUserWith(st, follow_account_key, follower, following) ==
    IF ~Exists(st.follow_account[follow_account_key])
       \/ ~Exists(st.user_profile[follower])
       \/ ~Exists(st.user_profile[following])
    THEN Result("AccountNotInitialized", st)
    ELSE IF ~FollowSeeds(follow_account_key, follower, following)
    THEN Result("ConstraintSeeds", st)
    ELSE Result(Ok, st)

\* unfollow_user on the account passed as follow_account: the exit step
\* closes it in favour of the signer
unfollow_user_with(st, follow_account_key, follower) ==
    Result(Ok, close_account(st, "follow_account", follow_account_key,
                             follower))

-----------------------------------------------------------------------------
(* Like / unlike *)

\* LikePost with init_if_needed for init
LikePost_if_needed(st, user, p) ==
    IF ~Exists(st.post[p])
    THEN Result("AccountNotInitialized", st)
    ELSE IF Exists(st.like_account[<<user, p>>])
    THEN Result(Ok, st)
    ELSE init_account(st, "like_account", <<user, p>>, user, RelationSpace)

\* #[derive(Accounts)] LikePost: the post is deserialized, then the relation
\* account is created at seeds ["like", user, post]
LikePost(st, user, p) ==
    IF ~Exists(st.post[p])
    THEN Result("AccountNotInitialized", st)
    ELSE init_account(st, "like_account", <<user, p>>, user, RelationSpace)

\* pub fn like_post
like_post(st, user, p, now) ==
    LET relation == [user |-> user, post |-> p, timestamp |-> now] IN
    Result(Ok,
      [st EXCEPT !.like_account[<<user, p>>].data = Some(relation),
                 !.post[p].data = Some([@[1] EXCEPT !.likes = @ + 1])])

\* #[derive(Accounts)] UnlikePost: the relation and the post must exist
UnlikePost(st, user, p) ==
    IF ~Exists(st.like_account[<<user, p>>]) \/ ~Exists(st.post[p])
    THEN Result("AccountNotInitialized", st)
    ELSE Result(Ok, st)

\* unlike_post without the decrement
unlike_post_keeps_count(st, user, p, overflow_checks) ==
    Result(Ok, close_account(st, "like_account", <<user, p>>, user))

\* pub fn unlike_post, then the exit step closing the relation account
unlike_post(st, user, p, overflow_checks) ==
    LET likes == checked_dec(Data(st.post[p]).likes, overflow_checks) IN
    IF likes = None THEN Result("Panic", st)
    ELSE Result(Ok,
           close_account(
             [st EXCEPT !.post[p].data = Some([@[1] EXCEPT !.likes = likes[1]])],
             "like_account", <<user, p>>, user))

-----------------------------------------------------------------------------
(* Profiles *)

\* #[derive(Accounts)] InitializeUserProfile
InitializeUserProfile_if_needed(st, user) ==
    IF Exists(st.user_profile[user])
    THEN Result(Ok, st)
    ELSE init_account(st, "user_profile", user, user, ProfileSpace)

\* #[derive(Accounts)] InitializeUserProfile: the profile account is created
\* at seeds ["user_profile", user], paid by the signer
InitializeUserProfile(st, user) ==
    init_account(st, "user_profile", user, user, ProfileSpace)

\* pub fn initialize_user_profile
initialize_user_profile(st, user, now) ==
    Result(Ok,
      [st EXCEPT !.user_profile[user].data =
         Some([user |-> user, username |-> None, display_name |-> None,
               bio |-> None, avatar_url |-> None, cover_image_url |-> None,
               website_url |-> None, location |-> None,
               followers_count |-> 0, following_count |-> 0,
               post_count |-> 0, created_at |-> now, verified |-> FALSE])])

\* #[derive(Accounts)] UpdateUserProfile: the profile at seeds
\* ["user_profile", user] of the signer
UpdateUserProfile(st, user) ==
    IF ~Exists(st.user_profile[user])
    THEN Result("AccountNotInitialized", st)
    ELSE Result(Ok, st)

\* update_fields clearing every field that was not supplied
RECURSIVE update_fields_clearing(_, _, _)
update_fields_clearing(profile, args, i) ==
    IF i > Len(Fields) THEN [res |-> Ok, profile |-> profile]
    ELSE LET f == Fields[i] IN
         IF args[f] = None
         THEN update_fields_clearing([profile EXCEPT ![f] = None], args, i + 1)
         ELSE IF ~(args[f][1] <= Limit(f))
              THEN [res |-> TooLong(f), profile |-> profile]
              ELSE update_fields_clearing([profile EXCEPT ![f] = args[f]],
                                          args, i + 1)

\* update_fields passing over a value that is too long instead of failing
RECURSIVE update_fields_skipping(_, _, _)
update_fields_skipping(profile, args, i) ==
    IF i > Len(Fields) THEN [res |-> Ok, profile |-> profile]
    ELSE LET f == Fields[i] IN
         IF args[f] = None THEN update_fields_skipping(profile, args, i + 1)
         ELSE IF ~(args[f][1] <= Limit(f))
              THEN update_fields_skipping(profile, args, i + 1)
              ELSE update_fields_skipping([profile EXCEPT ![f] = args[f]],
                                          args, i + 1)

\* the body of update_user_profile from the i-th optional argument on:
\* each supplied value is checked and then assigned, field by field
RECURSIVE update_fields(_, _, _)
update_fields(profile, args, i) ==
    IF i > Len(Fields) THEN [res |-> Ok, profile |-> profile]
    ELSE LET f == Fields[i] IN
         IF args[f] = None THEN update_fields(profile, args, i + 1)
         ELSE IF ~(args[f][1] <= Limit(f))
              THEN [res |-> TooLong(f), profile |-> profile]
              ELSE update_fields([profile EXCEPT ![f] = args[f]], args, i + 1)

\* pub fn update_user_profile
update_user_profile(st, user, args) ==
    LET r == update_fields(Data(st.user_profile[user]), args, 1) IN
    Result(r.res, [st EXCEPT !.user_profile[user].data = Some(r.profile)])

-----------------------------------------------------------------------------
(* Instructions as transactions *)

NoCall ==
    [op |-> "none", signer |-> "none", key |-> <<>>, arg |-> <<>>,
     res |-> "none", pre |-> <<>>]

Call(op, signer, key, arg) ==
    [op |-> op, signer |-> signer, key |-> key, arg |-> arg,
     res |-> "none", pre |-> <<>>]

\* The runtime commits the instruction's writes when it returns Ok and its
\* accounts serialize, and discards them when it returns an error.  `last` records the instruction,
\* its result and the ledger it ran on; `prev` keeps the instruction before
\* a follow / unfollow / like / unlike.
Execute(call, r, keep) ==
    LET x == accounts_exit(r) IN
    /\ last' = [call EXCEPT !.res = x.res, !.pre = Ledger]
    /\ prev' = IF keep THEN last ELSE NoCall
    /\ IF x.res = Ok
       THEN /\ lamports' = x.st.lamports
            /\ user_profile' = x.st.user_profile
            /\ post' = x.st.post
            /\ follow_account' = x.st.follow_account
            /\ like_account' = x.st.like_account
       ELSE UNCHANGED <<lamports, user_profile, post, follow_account,
                        like_account>>
    /\ UNCHANGED clock

\* v, and then h when v succeeded
AndThen(v, h) == IF v.res # Ok THEN v ELSE h

IxInitializeUserProfile(user) ==
    LET v == InitializeUserProfile(Ledger, user) IN
    Execute(Call("initialize_user_profile", user, <<user>>, <<>>),
            AndThen(v, initialize_user_profile(v.st, user, clock)), FALSE)

IxUpdateUserProfile(user, args) ==
    LET v == UpdateUserProfile(Ledger, user) IN
    Execute(Call("update_user_profile", user, <<user>>, args),
            AndThen(v, update_user_profile(v.st, user, args)), FALSE)

IxCreateTextPost(author, platform_treasury, content, timestamp, reply_to) ==
    LET v == CreateTextPost(Ledger, author, timestamp) IN
    Execute(Call("create_text_post", author, <<author, timestamp>>,
                 [content |-> content, reply_to |-> reply_to,
                  platform_treasury |-> platform_treasury]),
            AndThen(v, create_text_post(v.st, author, platform_treasury,
                                        content, timestamp, reply_to)),
            FALSE)

IxCreateImagePost(author, platform_treasury, content, timestamp, reply_to) ==
    LET v == CreateImagePost(Ledger, author, timestamp) IN
    Execute(Call("create_image_post", author, <<author, timestamp>>,
                 [content |-> content, reply_to |-> reply_to,
                  platform_treasury |-> platform_treasury]),
            AndThen(v, create_image_post(v.st, author, platform_treasury,
                                         content, timestamp, reply_to)),
            FALSE)

\* the counters a follow_user would increment are still below the bound
BelowMaxCount(follower, following) ==
    /\ Exists(user_profile[follower])
         => Data(user_profile[follower]).following_count < MaxCount
    /\ Exists(user_profile[following])
         => Data(user_profile[following]).followers_count < MaxCount

IxFollowUser(follower, following) ==
    /\ BelowMaxCount(follower, following)
    /\ LET v == FollowUser(Ledger, follower, following) IN
       Execute(Call("follow_user", follower, <<follower, following>>, <<>>),
               AndThen(v, follow_user(v.st, follower, following, clock)),
               TRUE)

IxUnfollowUser(follower, following) ==
    LET v == UnfollowUser(Ledger, follower, following) IN
    Execute(Call("unfollow_user", follower, <<follower, following>>, <<>>),
            AndThen(v, unfollow_user(v.st, follower, following)), TRUE)

\* follow_user signed by `follower`, with the account at `follow_account_key`
\* passed as follow_account
IxFollowUserWith(follow_account_key, follower, following) ==
    /\ BelowMaxCount(follower, following)
    /\ LET v == FollowUserWith(Ledger, follow_account_key, follower,
                               following) IN
       Execute(Call("follow_user", follower, follow_account_key, following),
               AndThen(v, follow_user(v.st, follower, following, clock)),
               FALSE)

\* unfollow_user signed by `follower`, with the account at
\* `follow_account_key` passed as follow_account
IxUnfollowUserWith(follow_account_key, follower, following) ==
    LET v == UnfollowUserWith(Ledger, follow_account_key, follower,
                              following) IN
    Execute(Call("unfollow_user", follower, follow_account_key, following),
            AndThen(v, unfollow_user_with(v.st, follow_account_key,
                                          follower)),
            FALSE)

IxLikePost(user, p) ==
    LET v == LikePost(Ledger, user, p) IN
    Execute(Call("like_post", user, <<user, p>>, <<>>),
            AndThen(v, like_post(v.st, user, p, clock)), TRUE)

IxUnlikePost(user, p) ==
    \E overflow_checks \in BOOLEAN :
       LET v == UnlikePost(Ledger, user, p) IN
       Execute(Call("unlike_post", user, <<user, p>>, <<>>),
               AndThen(v, unlike_post(v.st, user, p, overflow_checks)), TRUE)

IxLinkCnftToPost(author, p, cnft_address) ==
    LET v == LinkCNftToPost(Ledger, author, p) IN
    Execute(Call("link_cnft_to_post", author, p, cnft_address),
            AndThen(v, link_cnft_to_post(v.st, author, p, cnft_address)),
            FALSE)

\* the host clock advances between two instructions
Tick ==
    /\ clock < MaxClock
    /\ clock' = clock + 1
    /\ last' = NoCall
    /\ prev' = NoCall
    /\ UNCHANGED <<lamports, user_profile, post, follow_account,
                   like_account>>

-----------------------------------------------------------------------------
(* Inputs *)

\* content lengths around the two limits of Post.content
Contents == {0, 1, MaxContentLen, MaxContentLen + 1}

\* content lengths of the posts an image asset is linked to
LinkContents == {1, MaxContentLen}

\* addresses of compressed NFTs
Assets == {"asset1", "asset2"}

\* the post a reply names
Parent == <<"alice", 1000>>
ReplyTos == {None, Some(Parent)}

FieldNames == {Fields[i] : i \in 1..Len(Fields)}

\* arguments of update_user_profile supplying a bio of one byte
BioOnly == [f \in FieldNames |-> IF f = "bio" THEN Some(1) ELSE None]

\* lengths tried for an optional string: short, at its limit, one byte over
Sizes == {"short", "limit", "over"}
LenOf(f, size) ==
    CASE size = "short" -> 1
      [] size = "limit" -> Limit(f)
      [] size = "over" -> Limit(f) + 1

\* arguments of update_user_profile: at most MaxSupplied fields supplied
UpdateArgs ==
    UNION {
      { [f \in FieldNames |-> IF f \in S THEN Some(LenOf(f, v[f])) ELSE None]
        : v \in [S -> Sizes] }
      : S \in {T \in SUBSET FieldNames : Cardinality(T) <= MaxSupplied} }

\* the optional strings a stored profile can hold: any of them set, all
\* short or all at their limits, and, serialized with the fixed-width
\* fields, within ProfileSpace
StoredFields ==
    { fields \in
        { [f \in FieldNames |-> IF f \in S THEN Some(LenOf(f, size)) ELSE None]
          : S \in SUBSET FieldNames, size \in {"short", "limit"} } :
      ProfileSize(fields) <= ProfileSpace }

\* the profile account of `user` after initialize_user_profile and updates
\* that left the optional strings at `fields`
StoredProfile(user, fields) ==
    [lamports |-> Rent(ProfileSpace),
     data |-> Some([user |-> user, username |-> fields.username,
                    display_name |-> fields.display_name, bio |-> fields.bio,
                    avatar_url |-> fields.avatar_url,
                    cover_image_url |-> fields.cover_image_url,
                    website_url |-> fields.website_url,
                    location |-> fields.location,
                    followers_count |-> 0, following_count |-> 0,
                    post_count |-> 0, created_at |-> 0, verified |-> FALSE])]

-----------------------------------------------------------------------------
(* Specifications *)

Init ==
    /\ lamports = [w \in Wallets |->
                     IF w = Treasury THEN Rent(0) ELSE InitialLamports]
    /\ user_profile = [u \in Users |-> NoAccount]
    /\ post = [p \in PostAddrs |-> NoAccount]
    /\ follow_account = [a \in FollowAddrs |-> NoAccount]
    /\ like_account = [a \in LikeAddrs |-> NoAccount]
    /\ clock = 0
    /\ last = NoCall
    /\ prev = NoCall

\* profiles, follow and unfollow
NextFollow ==
    \/ \E u \in Users : IxInitializeUserProfile(u)
    \/ \E f \in Users, g \in Users : IxFollowUser(f, g)
    \/ \E f \in Users, g \in Users : IxUnfollowUser(f, g)

SpecFollow == Init /\ [][NextFollow]_vars

\* follow and unfollow with every relation account passed by every signer
NextRelation ==
    \/ \E u \in Users : IxInitializeUserProfile(u)
    \/ \E k \in FollowAddrs, f \in Users, g \in Users :
          IxFollowUserWith(k, f, g)
    \/ \E k \in FollowAddrs, f \in Users, g \in Users :
          IxUnfollowUserWith(k, f, g)

SpecRelation == Init /\ [][NextRelation]_vars

\* profile creation under an advancing clock, and each of the other
\* instructions on one input
NextClock ==
    \/ \E u \in Users : IxInitializeUserProfile(u)
    \/ Tick
    \/ IxUpdateUserProfile("alice", BioOnly)
    \/ IxCreateTextPost("alice", Treasury, 1, 1000, None)
    \/ IxCreateImagePost("bob", Treasury, 1, 1000, Some(Parent))
    \/ IxLinkCnftToPost("bob", <<"bob", 1000>>, "asset1")
    \/ IxFollowUserWith(<<"alice", "bob">>, "alice", "bob")
    \/ IxUnfollowUserWith(<<"alice", "bob">>, "alice", "bob")
    \/ IxLikePost("bob", <<"alice", 1000>>)
    \/ IxUnlikePost("bob", <<"alice", 1000>>)

SpecClock == Init /\ [][NextClock]_vars

\* profiles and post creation with every content length
NextPost ==
    \/ \E u \in Users : IxInitializeUserProfile(u)
    \/ \E a \in Users, c \in Contents, t \in Timestamps :
          IxCreateTextPost(a, Treasury, c, t, None)
    \/ \E a \in Users, c \in Contents, t \in Timestamps :
          IxCreateImagePost(a, Treasury, c, t, None)

SpecPost == Init /\ [][NextPost]_vars

\* profiles and post creation with every wallet as fee destination
NextFee ==
    \/ \E u \in Users : IxInitializeUserProfile(u)
    \/ \E a \in Users, w \in Wallets, t \in Timestamps :
          IxCreateTextPost(a, w, 1, t, None)
    \/ \E a \in Users, w \in Wallets, t \in Timestamps :
          IxCreateImagePost(a, w, 1, t, None)

SpecFee == Init /\ [][NextFee]_vars

\* posts, like and unlike
NextLike ==
    \/ \E u \in Users : IxInitializeUserProfile(u)
    \/ \E a \in Users, t \in Timestamps :
          IxCreateTextPost(a, Treasury, 1, t, None)
    \/ \E u \in Users, p \in PostAddrs : IxLikePost(u, p)
    \/ \E u \in Users, p \in PostAddrs : IxUnlikePost(u, p)

SpecLike == Init /\ [][NextLike]_vars

\* alice's posts of both kinds, replies, and linking of image assets by
\* any signer
NextLink ==
    \/ \E u \in Users : IxInitializeUserProfile(u)
    \/ \E c \in LinkContents, t \in Timestamps, r \in ReplyTos :
          IxCreateTextPost("alice", Treasury, c, t, r)
    \/ \E c \in LinkContents, t \in Timestamps, r \in ReplyTos :
          IxCreateImagePost("alice", Treasury, c, t, r)
    \/ \E u \in Users, p \in PostAddrs, n \in Assets :
          IxLinkCnftToPost(u, p, n)

SpecLink == Init /\ [][NextLink]_vars

\* update_user_profile applied once to every profile alice can hold
InitProfile ==
    /\ \E acct \in {NoAccount}
                     \cup {StoredProfile("alice", fs) : fs \in StoredFields} :
         /\ user_profile = [u \in Users |->
                              IF u = "alice" THEN acct ELSE NoAccount]
         /\ lamports = [w \in Wallets |->
                          IF w = Treasury THEN Rent(0)
                          ELSE IF w = "alice"
                          THEN InitialLamports - acct.lamports
                          ELSE InitialLamports]
    /\ post = [p \in PostAddrs |-> NoAccount]
    /\ follow_account = [a \in FollowAddrs |-> NoAccount]
    /\ like_account = [a \in LikeAddrs |-> NoAccount]
    /\ clock = 0
    /\ last = NoCall
    /\ prev = NoCall

NextProfile ==
    /\ last.op = "none"
    /\ \E args \in UpdateArgs : IxUpdateUserProfile("alice", args)

SpecProfile == InitProfile /\ [][NextProfile]_vars

-----------------------------------------------------------------------------
(* Vocabulary of the properties *)

\* the ledger the last instruction ran on
Pre == last.pre

CreateOps == {"create_text_post", "create_image_post"}
FeeDivisor(op) ==
    IF op = "create_text_post" THEN TextFeeDivisor ELSE ImageFeeDivisor

\* the last instruction / the one before it was `op` on `key` with result res
Was(call, op, res) == call.op = op /\ call.res = res

\* in ledger st, `author` has a profile, nothing lives at the post address
\* `key`, and the author can pay the post's rent and the fee of `op`
CanCreate(st, op, author, key) ==
    /\ Exists(st.user_profile[author])
    /\ st.post[key] = NoAccount
    /\ st.lamports[author] >=
          Rent(PostSpace) + Rent(PostSpace) \div FeeDivisor(op)

\* the last instruction left no post at `key`, moved no lamports and left
\* the author's post_count alone
NothingCreated(author, key) ==
    /\ post[key] = NoAccount
    /\ lamports = Pre.lamports
    /\ Data(user_profile[author]).post_count =
          Data(Pre.user_profile[author]).post_count

\* the positions of the supplied arguments that exceed their limit, and the
\* first field among them
OverLimit(args) ==
    {i \in 1..Len(Fields) :
        /\ args[Fields[i]] # None
        /\ args[Fields[i]][1] > Limit(Fields[i])}

FirstOverLimit(args) ==
    Fields[CHOOSE i \in OverLimit(args) : \A j \in OverLimit(args) : i <= j]

\* the lamports held by a set of wallets
RECURSIVE SumOver(_, _)
SumOver(balances, wallets) ==
    IF wallets = {} THEN 0
    ELSE LET w == CHOOSE x \in wallets : TRUE
         IN balances[w] + SumOver(balances, wallets \ {w})

-----------------------------------------------------------------------------
(* C1: following and then unfollowing the same ordered pair of two users
   returns the follower's following_count and the followed user's
   followers_count to their values before the follow, and leaves no
   FollowRelation for the pair. *)
FollowUnfollowInverse ==
    ( /\ Was(prev, "follow_user", Ok)
      /\ Was(last, "unfollow_user", Ok)
      /\ last.key = prev.key
      /\ last.key[1] # last.key[2] )
    => LET f == last.key[1]
           g == last.key[2]
       IN /\ Data(user_profile[f]).following_count =
                Data(prev.pre.user_profile[f]).following_count
          /\ Data(user_profile[g]).followers_count =
                Data(prev.pre.user_profile[g]).followers_count
          /\ follow_account[<<f, g>>] = NoAccount

-----------------------------------------------------------------------------
(* C2: like_post followed by unlike_post by the same user on the same post
   returns Post.likes to its value before the like and removes the
   LikeRelation; an unlike_post repeated right after a successful one fails
   and leaves Post.likes as it was. *)
LikeUnlikeInverse ==
    /\ ( /\ Was(prev, "like_post", Ok)
         /\ last.op = "unlike_post"
         /\ last.key = prev.key )
       => /\ last.res = Ok
          /\ Data(post[last.key[2]]).likes =
                Data(prev.pre.post[last.key[2]]).likes
          /\ like_account[last.key] = NoAccount
    /\ ( /\ Was(prev, "unlike_post", Ok)
         /\ last.op = "unlike_post"
         /\ last.key = prev.key )
       => /\ last.res = "AccountNotInitialized"
          /\ Data(post[last.key[2]]).likes = Data(Pre.post[last.key[2]]).likes
          /\ Data(post[last.key[2]]).likes =
                Data(prev.pre.post[last.key[2]]).likes - 1
          /\ like_account[last.key] = NoAccount

\* a post someone else likes was liked and unliked, and is back at one like
LikeUnlikeWitness ==
    /\ Was(prev, "like_post", Ok)
    /\ Was(last, "unlike_post", Ok)
    /\ last.key = prev.key
    /\ Data(prev.pre.post[last.key[2]]).likes = 1
    /\ Data(Pre.post[last.key[2]]).likes = 2
    /\ Data(post[last.key[2]]).likes = 1

-----------------------------------------------------------------------------
(* C3: when the author has a profile, no post exists at (author, timestamp)
   and the author can pay, create_text_post and create_image_post succeed
   for every content length in 1..280, fail with ContentEmpty for length 0
   and with ContentTooLong for a length above 280; in the failing cases no
   Post exists at the address, no lamports have moved and the author's
   post_count is unchanged. *)
ContentLengthRule ==
    ( /\ last.op \in CreateOps
      /\ CanCreate(Pre, last.op, last.signer, last.key) )
    => LET c == last.arg.content IN
       /\ (c >= 1 /\ c <= 280) => (last.res = Ok /\ Exists(post[last.key]))
       /\ c = 0 => ( /\ last.res = "ContentEmpty"
                     /\ NothingCreated(last.signer, last.key) )
       /\ c > 280 => ( /\ last.res = "ContentTooLong"
                       /\ NothingCreated(last.signer, last.key) )

\* an author who could create the post supplied 281 bytes and was refused
ContentLengthWitness ==
    /\ last.op = "create_text_post"
    /\ CanCreate(Pre, last.op, last.signer, last.key)
    /\ last.arg.content = 281
    /\ last.res = "ContentTooLong"
    /\ post[last.key] = NoAccount

-----------------------------------------------------------------------------
(* C4: follow_user for an ordered pair whose FollowRelation is present
   fails with an already-exists error, leaves the existing record as it was
   and changes neither profile; every FollowRelation present sits at the
   address of its own (follower, following) pair, so a pair has at most one. *)
FollowTwiceRejected ==
    /\ ( /\ last.op = "follow_user"
         /\ Exists(Pre.follow_account[last.key]) )
       => /\ last.res = "AlreadyInUse"
          /\ follow_account[last.key] = Pre.follow_account[last.key]
          /\ user_profile = Pre.user_profile
    /\ \A a \in FollowAddrs :
         Exists(follow_account[a])
           => /\ Data(follow_account[a]).follower = a[1]
              /\ Data(follow_account[a]).following = a[2]
    /\ \A f \in Users, g \in Users :
         Cardinality({a \in FollowAddrs :
                        /\ Exists(follow_account[a])
                        /\ Data(follow_account[a]).follower = f
                        /\ Data(follow_account[a]).following = g}) <= 1

\* a second follow_user of a followed user was refused
FollowTwiceWitness ==
    /\ Was(prev, "follow_user", Ok)
    /\ Was(last, "follow_user", "AlreadyInUse")
    /\ last.key = prev.key
    /\ last.key[1] # last.key[2]
    /\ Exists(follow_account[last.key])
    /\ Data(user_profile[last.key[1]]).following_count = 1

-----------------------------------------------------------------------------
(* C5: creating a post of either kind at an (author, timestamp) where a
   post of either kind exists fails with an already-exists error, leaves
   the existing post unchanged, moves no lamports and does not increment
   the author's post_count; the same timestamp used by another author who
   can create a post succeeds. *)
OnePostPerTimestamp ==
    /\ ( /\ last.op \in CreateOps
         /\ Exists(Pre.post[last.key]) )
       => /\ last.res = "AlreadyInUse"
          /\ post[last.key] = Pre.post[last.key]
          /\ lamports = Pre.lamports
          /\ Data(user_profile[last.signer]).post_count =
                Data(Pre.user_profile[last.signer]).post_count
    /\ ( /\ last.op \in CreateOps
         /\ CanCreate(Pre, last.op, last.signer, last.key)
         /\ last.arg.content >= 1 /\ last.arg.content <= 280
         /\ \E other \in Users \ {last.signer} :
               Exists(Pre.post[<<other, last.key[2]>>]) )
       => /\ last.res = Ok
          /\ Exists(post[last.key])

\* an image post was refused at the address of the author's text post,
\* while the other author holds a post with the same timestamp
OnePostPerTimestampWitness ==
    /\ Was(last, "create_image_post", "AlreadyInUse")
    /\ Exists(post[last.key])
    /\ Data(post[last.key]).post_type = TextPostType
    /\ Data(user_profile[last.signer]).post_count = 1
    /\ \E other \in Users \ {last.signer} :
          Exists(post[<<other, last.key[2]>>])

-----------------------------------------------------------------------------
(* C6: a successful update_user_profile sets each of the seven optional
   fields to the supplied value when one was supplied and leaves it as it
   was when none was; user, followers_count, following_count, post_count,
   created_at and verified are unchanged. *)
UpdateReplacesSupplied ==
    Was(last, "update_user_profile", Ok)
    => LET old == Data(Pre.user_profile[last.signer])
           new == Data(user_profile[last.signer])
       IN /\ \A f \in FieldNames :
               new[f] = IF last.arg[f] # None THEN last.arg[f] ELSE old[f]
          /\ new.user = old.user
          /\ new.followers_count = old.followers_count
          /\ new.following_count = old.following_count
          /\ new.post_count = old.post_count
          /\ new.created_at = old.created_at
          /\ new.verified = old.verified

\* only bio was supplied: it replaced a different bio, and the six other
\* fields, all set before, kept their values
UpdateReplacesWitness ==
    /\ Was(last, "update_user_profile", Ok)
    /\ \A f \in FieldNames : (last.arg[f] # None) <=> (f = "bio")
    /\ LET old == Data(Pre.user_profile[last.signer])
           new == Data(user_profile[last.signer])
       IN /\ \A f \in FieldNames : old[f] # None
          /\ old.bio # last.arg.bio
          /\ new.bio = last.arg.bio
          /\ \A f \in FieldNames \ {"bio"} : new[f] = old[f]

-----------------------------------------------------------------------------
(* C7: an update_user_profile on an existing profile in which a supplied
   field exceeds its limit fails with the TooLong error of the first such
   field and leaves the persisted profile unchanged, valid fields listed
   earlier in the call included. *)
UpdateTooLongAborts ==
    ( /\ last.op = "update_user_profile"
      /\ Exists(Pre.user_profile[last.signer])
      /\ OverLimit(last.arg) # {} )
    => /\ last.res = TooLong(FirstOverLimit(last.arg))
       /\ user_profile = Pre.user_profile

\* a new valid username came with a 161-byte bio: BioTooLong, and the
\* stored username is still the old one
UpdateTooLongWitness ==
    /\ Was(last, "update_user_profile", "BioTooLong")
    /\ last.arg.bio = Some(161)
    /\ last.arg.username # None
    /\ last.arg.username[1] <= 50
    /\ Data(Pre.user_profile[last.signer]).username # last.arg.username
    /\ Data(user_profile[last.signer]).username =
          Data(Pre.user_profile[last.signer]).username

-----------------------------------------------------------------------------
(* C8: every successful create_text_post moves floor(D/100), and every
   successful create_image_post floor(D/10), from the author to the account
   passed as platform_treasury, D being the lamports held by the new Post
   account; besides that the author pays D into the Post, no lamports
   appear or vanish, and the author's post_count grows by exactly 1. *)
FeeIsShareOfDeposit ==
    (last.op \in CreateOps /\ last.res = Ok)
    => LET author == last.signer
           treasury == last.arg.platform_treasury
           D == post[last.key].lamports
           fee == IF last.op = "create_text_post" THEN D \div 100
                  ELSE D \div 10
           debited == [Pre.lamports EXCEPT ![author] = @ - D - fee]
       IN /\ D = Rent(PostSpace)
          /\ lamports = [debited EXCEPT ![treasury] = @ + fee]
          /\ SumOver(lamports, Wallets) + D = SumOver(Pre.lamports, Wallets)
          /\ Data(user_profile[author]).post_count =
                Data(Pre.user_profile[author]).post_count + 1

\* an image post paid a tenth of its deposit to the treasury wallet
FeeIsShareWitness ==
    /\ Was(last, "create_image_post", Ok)
    /\ last.arg.platform_treasury = Treasury
    /\ post[last.key].lamports \div 10 > 0
    /\ lamports[Treasury] =
          Pre.lamports[Treasury] + post[last.key].lamports \div 10
    /\ lamports[last.signer] =
          Pre.lamports[last.signer] - post[last.key].lamports
            - post[last.key].lamports \div 10

-----------------------------------------------------------------------------
(* C9: the fee of every successful post creation is credited to the one
   fixed treasury address, whatever accounts the caller supplies. *)
FeeOnlyToTreasury ==
    (last.op \in CreateOps /\ last.res = Ok)
    => /\ last.arg.platform_treasury = Treasury
       /\ lamports[Treasury] =
             Pre.lamports[Treasury]
               + post[last.key].lamports \div FeeDivisor(last.op)

-----------------------------------------------------------------------------
(* C10: when the author can pay the post's rent but not the fee on top of
   it, create_text_post and create_image_post fail: no Post exists at the
   address afterwards, and the author's post_count and all balances are
   unchanged. *)
FeeFailureAborts ==
    ( /\ last.op \in CreateOps
      /\ Exists(Pre.user_profile[last.signer])
      /\ Pre.post[last.key] = NoAccount
      /\ last.arg.content >= 1 /\ last.arg.content <= 280
      /\ Pre.lamports[last.signer] >= Rent(PostSpace)
      /\ Pre.lamports[last.signer] - Rent(PostSpace)
            < Rent(PostSpace) \div FeeDivisor(last.op) )
    => /\ last.res = "InsufficientFunds"
       /\ NothingCreated(last.signer, last.key)

\* a text post whose rent the author could pay failed on the fee
FeeFailureWitness ==
    /\ Was(last, "create_text_post", "InsufficientFunds")
    /\ last.arg.content = 280
    /\ Pre.lamports[last.signer] >= Rent(PostSpace)
    /\ Pre.lamports[last.signer] - Rent(PostSpace)
          < Rent(PostSpace) \div TextFeeDivisor
    /\ post[last.key] = NoAccount
    /\ lamports = Pre.lamports

-----------------------------------------------------------------------------
(* C11: link_cnft_to_post on a post of kind Text fails with NotImagePost,
   whoever signs and whatever asset address is supplied, and changes
   nothing; on a post of kind Image a successful call sets image_nft to the
   supplied address, replacing an address linked before, and changes no
   other field of the post and no other account. *)
LinkSetsImageReference ==
    (last.op = "link_cnft_to_post" /\ Exists(Pre.post[last.key]))
    => LET old == Data(Pre.post[last.key]) IN
       /\ old.post_type = TextPostType
             => last.res = "NotImagePost" /\ Ledger = Pre
       /\ (old.post_type = ImagePostType /\ last.res = Ok)
             => Ledger =
                  [Pre EXCEPT !.post[last.key].data =
                     Some([old EXCEPT !.image_nft = Some(last.arg)])]

\* an asset is linked to an Image post that had another asset linked
LinkReplacesWitness ==
    /\ Was(last, "link_cnft_to_post", Ok)
    /\ Data(Pre.post[last.key]).post_type = ImagePostType
    /\ Data(Pre.post[last.key]).image_nft # None
    /\ Data(Pre.post[last.key]).image_nft # Some(last.arg)
    /\ Data(post[last.key]).image_nft = Some(last.arg)

-----------------------------------------------------------------------------
(* C12: link_cnft_to_post requires the post's declared owner as signer: a
   call signed by a key other than post.author is rejected and leaves the
   post, its image reference included, unchanged. *)
LinkRequiresOwner ==
    (/\ last.op = "link_cnft_to_post"
     /\ Exists(Pre.post[last.key])
     /\ last.signer # Data(Pre.post[last.key]).author)
    => last.res # Ok /\ post[last.key] = Pre.post[last.key]

-----------------------------------------------------------------------------
(* C13: every successful follow_user increments the follower's
   following_count by one and the followed user's followers_count by one
   and changes no other field of either profile; when a user follows
   themself, the one profile ends with both counters incremented. *)
FollowIncrementsBoth ==
    Was(last, "follow_user", Ok)
    => LET f == last.key[1]
           g == last.key[2]
           fp == Data(Pre.user_profile[f])
           gp == Data(Pre.user_profile[g])
       IN IF f = g
          THEN Data(user_profile[f]) =
                 [fp EXCEPT !.following_count = @ + 1,
                            !.followers_count = @ + 1]
          ELSE /\ Data(user_profile[f]) =
                    [fp EXCEPT !.following_count = @ + 1]
               /\ Data(user_profile[g]) =
                    [gp EXCEPT !.followers_count = @ + 1]

-----------------------------------------------------------------------------
(* C14: the FollowRelation of an ordered pair (f, g) is created and removed
   only by a successful follow_user or unfollow_user signed by f and naming
   g -- never by an instruction signed by another key, g included, and g
   does not sign; unfollow_user for a pair whose relation is absent fails
   and changes nothing; a successful unfollow_user pays the relation's
   storage deposit to f. *)
RelationChangesOnlyByFollower ==
    last.op # "none"
    => /\ \A a \in FollowAddrs :
            follow_account[a] # Pre.follow_account[a]
            => /\ last.op \in {"follow_user", "unfollow_user"}
               /\ last.res = Ok
               /\ last.signer = a[1]
               /\ last.arg = a[2]
               /\ Exists(follow_account[a]) = (last.op = "follow_user")
       /\ (/\ last.op = "unfollow_user"
           /\ ~Exists(Pre.follow_account[<<last.signer, last.arg>>]))
          => last.res # Ok /\ Ledger = Pre
       /\ Was(last, "unfollow_user", Ok)
          => /\ Pre.follow_account[last.key].lamports = Rent(RelationSpace)
             /\ lamports =
                  [Pre.lamports EXCEPT ![last.key[1]] =
                                          @ + Rent(RelationSpace)]

\* f, alone, has followed g and now unfollowed, and has the deposit back
UnfollowRefundsWitness ==
    /\ Was(last, "unfollow_user", Ok)
    /\ last.signer # last.arg
    /\ ~Exists(follow_account[last.key])
    /\ lamports[last.signer] = Pre.lamports[last.signer] + Rent(RelationSpace)

-----------------------------------------------------------------------------
(* C15: the space declared for a Post account is at least the worst-case
   serialized size of a Post (content of MaxContentLen bytes, image_nft and
   reply_to both present), so that link_cnft_to_post on a post of kind
   Image never fails for lack of space. *)
PostSpaceSuffices ==
    (/\ last.op = "link_cnft_to_post"
     /\ Exists(Pre.post[last.key])
     /\ Data(Pre.post[last.key]).post_type = ImagePostType)
    => /\ last.res = Ok
       /\ PostSize(Data(post[last.key])) <= PostSpace

-----------------------------------------------------------------------------
(* C16: the space declared for a UserProfile account is at least the
   worst-case serialized size of a profile (all seven optional strings
   present at their maximum lengths), so that an update_user_profile whose
   supplied values are all within their limits never fails for lack of
   space. *)
ProfileSpaceSuffices ==
    (/\ last.op = "update_user_profile"
     /\ Exists(Pre.user_profile[last.signer])
     /\ OverLimit(last.arg) = {})
    => /\ last.res = Ok
       /\ ProfileSize(Data(user_profile[last.signer])) <= ProfileSpace

-----------------------------------------------------------------------------
(* C17: initialize_user_profile is one-time per user: on a user without a
   profile it creates one with the seven optional fields empty, the three
   counters 0, verified false and created_at read from the host clock; on
   a user with a profile it fails and changes nothing; and no instruction
   removes a profile. *)
ProfileCreatedOnce ==
    last.op # "none"
    => /\ \A u \in Users :
            Exists(Pre.user_profile[u]) => Exists(user_profile[u])
       /\ (/\ last.op = "initialize_user_profile"
           /\ ~Exists(Pre.user_profile[last.signer]))
          => /\ last.res = Ok
             /\ Data(user_profile[last.signer]) =
                  [user |-> last.signer, username |-> None,
                   display_name |-> None, bio |-> None, avatar_url |-> None,
                   cover_image_url |-> None, website_url |-> None,
                   location |-> None, followers_count |-> 0,
                   following_count |-> 0, post_count |-> 0,
                   created_at |-> clock, verified |-> FALSE]
       /\ (/\ last.op = "initialize_user_profile"
           /\ Exists(Pre.user_profile[last.signer]))
          => last.res # Ok /\ Ledger = Pre

\* a second initialize_user_profile has failed on a profile created when
\* the clock had advanced and written to since
ProfileCreatedOnceWitness ==
    /\ last.op = "initialize_user_profile"
    /\ last.res # Ok
    /\ Exists(user_profile[last.signer])
    /\ Data(user_profile[last.signer]).created_at > 0
    /\ Data(user_profile[last.signer]).bio # None
    /\ Data(user_profile[last.signer]).post_count > 0

-----------------------------------------------------------------------------
(* C18: the reserved fields keep their initial values: every Post has
   reposts = 0 and replies = 0 -- creating a post with reply_to =
   Some(parent) does not change the parent's replies -- and every profile
   has verified = false. *)
ReservedFieldsStayInitial ==
    /\ \A p \in PostAddrs :
          Exists(post[p])
          => Data(post[p]).reposts = 0 /\ Data(post[p]).replies = 0
    /\ \A u \in Users :
          Exists(user_profile[u]) => ~Data(user_profile[u]).verified

\* a reply to an existing, liked post has been created, and its author's
\* profile has been followed
ReplyCreatedWitness ==
    /\ Was(last, "create_image_post", Ok)
    /\ last.arg.reply_to = Some(Parent)
    /\ Exists(Pre.post[Parent])
    /\ Data(post[Parent]).likes > 0
    /\ Data(post[Parent]).replies = 0
    /\ Data(user_profile[last.signer]).followers_count > 0

-----------------------------------------------------------------------------
(* C19: the likes of every Post equal the number of LikeRelation records
   present for that post, and unlike_post succeeds only on a post with
   likes >= 1, so the decrement never underflows. *)
LikesCountRelations ==
    /\ \A p \in PostAddrs :
          LET likers == {u \in Users : Exists(like_account[<<u, p>>])} IN
          IF Exists(post[p])
          THEN Data(post[p]).likes = Cardinality(likers)
          ELSE likers = {}
    /\ last.op = "unlike_post"
       => /\ last.res # "Panic"
          /\ last.res = Ok => Data(Pre.post[last.key[2]]).likes >= 1

\* a post liked by two users has been unliked by one of them
UnlikeCountsWitness ==
    /\ Was(last, "unlike_post", Ok)
    /\ Data(Pre.post[last.key[2]]).likes = 2
    /\ Data(post[last.key[2]]).likes = 1
    /\ Cardinality({u \in Users :
                      Exists(like_account[<<u, last.key[2]>>])}) = 1

-----------------------------------------------------------------------------
(* C20: for every user with a profile, post_count equals the number of
   Post records whose author is that user; a post can be created only by
   an author whose profile exists, and creating it increments that
   author's post_count and no other profile's. *)
PostCountCountsPosts ==
    /\ \A u \in Users :
          LET posts == {p \in PostAddrs :
                          Exists(post[p]) /\ Data(post[p]).author = u} IN
          IF Exists(user_profile[u])
          THEN Data(user_profile[u]).post_count = Cardinality(posts)
          ELSE posts = {}
    /\ last.op \in CreateOps
       => /\ last.res = Ok => Exists(Pre.user_profile[last.signer])
          /\ last.res = Ok
             => user_profile =
                  [Pre.user_profile EXCEPT ![last.signer].data =
                     Some([@[1] EXCEPT !.post_count = @ + 1])]
          /\ last.res # Ok => user_profile = Pre.user_profile

\* an author's second post has been created while another user has a
\* profile and a post
SecondPostWitness ==
    /\ last.op \in CreateOps
    /\ last.res = Ok
    /\ Data(user_profile[last.signer]).post_count = 2
    /\ \E u \in Users \ {last.signer} :
          /\ Exists(user_profile[u])
          /\ Data(user_profile[u]).post_count = 1

=============================================================================
